---------------------------- MODULE Spec2Model ----------------------------
(***************************************************************************)
(* A model of etl_pipeline.py: convert_to_brasilian_time and the           *)
(* envelope loop and the CSV sink of process_case_data.                    *)
(*                                                                         *)
(* Representation of Python values.                                        *)
(*   - A JSON/Python value is a tagged record: [t |-> "null"] (None),      *)
(*     [t |-> "bool"|"num"|"str"|"list"|"dict", v |-> ...].  A dict is a   *)
(*     function from key strings to values, a list is a sequence.          *)
(*   - A str that the code only compares, copies or joins is a TLA+        *)
(*     string.  A timestamp str, which the code takes apart, is a sequence *)
(*     of one-character strings.                                           *)
(*   - The Payload text is kept by what json.loads makes of it: either     *)
(*     the document it denotes or the fact that it does not decode.        *)
(*   - The outcome of a call is [exc |-> ""] plus its result, or           *)
(*     [exc |-> "<ExceptionClass>"] when it raises.                        *)
(***************************************************************************)
EXTENDS Integers, Sequences, FiniteSets, TLC

VARIABLES
    data,                   \* the decoded input array (line 20)
    next_record,            \* position of the for loop of line 26 in data
    curated_offer_options,  \* line 22
    dynamic_price_option,   \* line 23
    dynamic_price_range,    \* line 24
    pc,                     \* where process_case_data stands
    exc,                    \* the exception that ended the run, "" if none
    stdout,                 \* what print() has written (lines 35, 122)
    output_dir_made,        \* os.makedirs has run (line 101)
    files,                  \* the files written by to_csv (line 121)
    utc_time_str,           \* argument of the latest convert_to_brasilian_time
    returned                \* what that call returned or raised

vars == <<data, next_record, curated_offer_options, dynamic_price_option,
          dynamic_price_range, pc, exc, stdout, output_dir_made, files,
          utc_time_str, returned>>

---------------------------------------------------------------------------
(* Python values *)

None == [t |-> "null"]
JBool(b) == [t |-> "bool", v |-> b]
JNum(n) == [t |-> "num", v |-> n]
JStr(s) == [t |-> "str", v |-> s]
JList(s) == [t |-> "list", v |-> s]
JDict(f) == [t |-> "dict", v |-> f]

\* dict.get(key): the value, None when the key is absent.
Get(d, key) == IF key \in DOMAIN d.v THEN d.v[key] ELSE None

\* dict.get(key, default)
GetDefault(d, key, default) == IF key \in DOMAIN d.v THEN d.v[key] ELSE default

\* Python truthiness, as `x if x else y` tests it.
Truthy(x) ==
    CASE x.t = "null" -> FALSE
      [] x.t = "bool" -> x.v
      [] x.t = "num"  -> x.v # 0
      [] x.t = "str"  -> x.v # ""
      [] x.t = "list" -> x.v # <<>>
      [] x.t = "dict" -> DOMAIN x.v # {}

---------------------------------------------------------------------------
(* convert_to_brasilian_time, lines 7-16 *)

Digit == [c \in {"0", "1", "2", "3", "4", "5", "6", "7", "8", "9"} |->
            CASE c = "0" -> 0 [] c = "1" -> 1 [] c = "2" -> 2 [] c = "3" -> 3
              [] c = "4" -> 4 [] c = "5" -> 5 [] c = "6" -> 6 [] c = "7" -> 7
              [] c = "8" -> 8 [] c = "9" -> 9]

DigitChar == <<"0", "1", "2", "3", "4", "5", "6", "7", "8", "9">>

UtcSuffix == <<" ", "U", "T", "C">>

\* str.replace(" UTC", ""): every occurrence goes, left to right (line 13).
RECURSIVE replace_utc(_)
replace_utc(s) ==
    IF Len(s) < Len(UtcSuffix) THEN s
    ELSE IF SubSeq(s, 1, Len(UtcSuffix)) = UtcSuffix
         THEN replace_utc(SubSeq(s, Len(UtcSuffix) + 1, Len(s)))
         ELSE <<Head(s)>> \o replace_utc(Tail(s))

\* int() of a run of digit characters.
RECURSIVE to_int(_)
to_int(s) ==
    IF s = <<>> THEN 0
    ELSE 10 * to_int(SubSeq(s, 1, Len(s) - 1)) + Digit[s[Len(s)]]

AllDigits(s) == \A k \in 1..Len(s) : s[k] \in DOMAIN Digit

\* datetime's calendar (the proleptic Gregorian one of the standard library).
is_leap(year) == year % 4 = 0 /\ (year % 100 # 0 \/ year % 400 = 0)

DAYS_IN_MONTH == <<31, 28, 31, 30, 31, 30, 31, 31, 30, 31, 30, 31>>

DAYS_BEFORE_MONTH == <<0, 31, 59, 90, 120, 151, 181, 212, 243, 273, 304, 334>>

days_in_month(year, month) ==
    IF month = 2 /\ is_leap(year) THEN 29 ELSE DAYS_IN_MONTH[month]

days_before_year(year) ==
    LET y == year - 1 IN y * 365 + (y \div 4) - (y \div 100) + (y \div 400)

days_before_month(year, month) ==
    DAYS_BEFORE_MONTH[month] + (IF month > 2 /\ is_leap(year) THEN 1 ELSE 0)

ymd2ord(year, month, day) ==
    days_before_year(year) + days_before_month(year, month) + day

ord2ymd(ordinal) ==
    LET n0   == ordinal - 1
        n400 == n0 \div 146097
        r400 == n0 % 146097
        n100 == r400 \div 36524
        r100 == r400 % 36524
        n4   == r100 \div 1461
        r4   == r100 % 1461
        n1   == r4 \div 365
        n    == r4 % 365
        year == n400 * 400 + 1 + n100 * 100 + n4 * 4 + n1
        leapyear == n1 = 3 /\ (n4 # 24 \/ n100 = 3)
        m0   == (n + 50) \div 32
        p0   == DAYS_BEFORE_MONTH[m0] + (IF m0 > 2 /\ leapyear THEN 1 ELSE 0)
        month == IF p0 > n THEN m0 - 1 ELSE m0
        preceding ==
            IF p0 > n
            THEN p0 - (DAYS_IN_MONTH[month]
                       + (IF month = 2 /\ leapyear THEN 1 ELSE 0))
            ELSE p0
    IN  IF n1 = 4 \/ n100 = 4
        THEN [year |-> year - 1, month |-> 12, day |-> 31]
        ELSE [year |-> year, month |-> month, day |-> n - preceding + 1]

\* datetime.strptime(s, "%Y-%m-%d %H:%M:%S") (line 14) on fixed-width text:
\* the fields are cut at the separators, each must be in the range its
\* directive accepts, and the date must exist.
strptime(s) ==
    IF ~(/\ Len(s) = 19
         /\ s[5] = "-" /\ s[8] = "-" /\ s[11] = " "
         /\ s[14] = ":" /\ s[17] = ":"
         /\ AllDigits(SubSeq(s, 1, 4)) /\ AllDigits(SubSeq(s, 6, 7))
         /\ AllDigits(SubSeq(s, 9, 10)) /\ AllDigits(SubSeq(s, 12, 13))
         /\ AllDigits(SubSeq(s, 15, 16)) /\ AllDigits(SubSeq(s, 18, 19)))
    THEN [exc |-> "ValueError"]
    ELSE LET year   == to_int(SubSeq(s, 1, 4))
             month  == to_int(SubSeq(s, 6, 7))
             day    == to_int(SubSeq(s, 9, 10))
             hour   == to_int(SubSeq(s, 12, 13))
             minute == to_int(SubSeq(s, 15, 16))
             second == to_int(SubSeq(s, 18, 19))
         IN  IF /\ year >= 1
                /\ month \in 1..12
                /\ day >= 1 /\ day <= days_in_month(year, month)
                /\ hour \in 0..23 /\ minute \in 0..59 /\ second \in 0..59
             THEN [exc |-> "", year |-> year, month |-> month, day |-> day,
                   hour |-> hour, minute |-> minute, second |-> second]
             ELSE [exc |-> "ValueError"]

\* timedelta(hours=3), line 15.
OffsetHours == 3

\* The slip of formatting dt_utc itself: the offset is never applied.
minus_hours_forgotten(dt) == dt

\* dt_utc - timedelta(hours=OffsetHours): on days and seconds of the day, as
\* datetime does; a result before year 1 is an OverflowError.
minus_hours(dt) ==
    LET days0 == ymd2ord(dt.year, dt.month, dt.day)
        secs0 == dt.hour * 3600 + dt.minute * 60 + dt.second
                 - OffsetHours * 3600
        days  == IF secs0 < 0 THEN days0 - 1 ELSE days0
        secs  == IF secs0 < 0 THEN secs0 + 86400 ELSE secs0
    IN  IF days < 1 THEN [exc |-> "OverflowError"]
        ELSE LET d == ord2ymd(days)
             IN  [exc |-> "", year |-> d.year, month |-> d.month,
                  day |-> d.day, hour |-> secs \div 3600,
                  minute |-> (secs % 3600) \div 60, second |-> secs % 60]

\* n in decimal, at least `width` characters, zero filled.
RECURSIVE zfill(_, _)
zfill(n, width) ==
    IF n < 10 /\ width <= 1 THEN <<DigitChar[n + 1]>>
    ELSE zfill(n \div 10, width - 1) \o <<DigitChar[(n % 10) + 1]>>

\* strftime("%d/%m/%Y"), line 16.  The C library decides whether %Y fills a
\* year below 1000 with zeros: pad_year is the build's answer.
strftime(dt, pad_year) ==
    zfill(dt.day, 2) \o <<"/">> \o zfill(dt.month, 2) \o <<"/">>
        \o zfill(dt.year, IF pad_year THEN 4 ELSE 1)

convert_to_brasilian_time(utc, pad_year) ==
    IF utc.t # "str" THEN [exc |-> "AttributeError"]
    ELSE LET dt_utc == strptime(replace_utc(utc.v))
         IN  IF dt_utc.exc # "" THEN [exc |-> dt_utc.exc]
             ELSE LET dt_sp == minus_hours(dt_utc)
                  IN  IF dt_sp.exc # "" THEN [exc |-> dt_sp.exc]
                      ELSE [exc |-> "", v |-> strftime(dt_sp, pad_year)]

NotCalled == [exc |-> "", v |-> <<>>]

---------------------------------------------------------------------------
(* process_case_data: one pass of the loop body, lines 26-98 *)

IsStr(x, s) == x.t = "str" /\ x.v = s

\* The elements a for loop draws from x.  A dict yields its keys and a str
\* its characters, which are str again: what they are does not matter, the
\* first .get on one of them raises.
RECURSIVE SetToSeq(_)
SetToSeq(S) ==
    IF S = {} THEN <<>>
    ELSE LET k == CHOOSE k \in S : TRUE IN <<JStr(k)>> \o SetToSeq(S \ {k})

iterate(x) ==
    CASE x.t = "list" -> [exc |-> "", items |-> x.v]
      [] x.t = "dict" -> [exc |-> "", items |-> SetToSeq(DOMAIN x.v)]
      [] x.t = "str"  -> [exc |-> "",
                          items |-> IF x.v = "" THEN <<>> ELSE <<x>>]
      [] OTHER        -> [exc |-> "TypeError"]

\* ",".join(items), for items that are all str.
RECURSIVE join(_)
join(items) ==
    IF items = <<>> THEN ""
    ELSE IF Len(items) = 1 THEN items[1].v
    ELSE items[1].v \o "," \o join(Tail(items))

\* Lines 44-52.
range_row(provider, offer_id, algorithm_output, enqueued_time_sp) ==
    [Provider |-> provider,
     OfferId |-> offer_id,
     MinGlobal |-> Get(algorithm_output, "min_global"),
     MinRecommended |-> Get(algorithm_output, "min_recommended"),
     MaxRecommended |-> Get(algorithm_output, "max_recommended"),
     DifferenceMinRecommendMinTheory |->
         Get(algorithm_output, "differenceMinRecommendMinTheory"),
     EnqueuedTimeSP |-> enqueued_time_sp]

\* Lines 57-63.
option_row(provider, offer_id, opt, enqueued_time_sp) ==
    [Provider |-> provider,
     OfferId |-> offer_id,
     UniqueOptionId |-> Get(opt, "uniqueOptionId"),
     BestPrice |-> Get(opt, "bestPrice"),
     EnqueuedTimeSP |-> enqueued_time_sp]

\* The slip of emitting defeat_reasons as it is, None included.
defeat_reasons_field_as_is(defeat_reasons) == defeat_reasons

\* Line 96: defeat_reasons if defeat_reasons else "".
defeat_reasons_field(defeat_reasons) ==
    IF Truthy(defeat_reasons) THEN defeat_reasons ELSE JStr("")

\* Lines 79-98.
curated_row(curation_provider, offer_id, dealer_id, opt, defeat_reasons, enqueued_time_sp) ==
    [CurationProvider |-> curation_provider,
     OfferId |-> offer_id,
     DealerId |-> dealer_id,
     UniqueOptionId |-> Get(opt, "uniqueOptionId"),
     OptionId |-> Get(opt, "optionId"),
     IsMobileDealer |-> Get(opt, "isMobileDealer"),
     IsOpen |-> Get(opt, "isOpen"),
     Eta |-> Get(opt, "eta"),
     ChamaScore |-> Get(opt, "chamaScore"),
     ProductBrand |-> Get(opt, "productBrand"),
     IsWinner |-> Get(opt, "isWinner"),
     MinimumPrice |-> Get(opt, "minimumPrice"),
     MaximumPrice |-> Get(opt, "maximumPrice"),
     DynamicPrice |-> Get(opt, "dynamicPrice"),
     FinalPrice |-> Get(opt, "finalPrice"),
     DefeatPrimaryReason |-> GetDefault(opt, "defeatPrimaryReason", JStr("")),
     DefeatReasons |-> defeat_reasons_field(defeat_reasons),
     EnqueuedTimeSP |-> enqueued_time_sp]

\* The loop of lines 56-63 over the elements of algorithm_output: the rows
\* appended, in order, and the exception that cut the loop short, if any.
RECURSIVE per_option_loop(_, _, _, _)
per_option_loop(items, provider, offer_id, enqueued_time_sp) ==
    IF items = <<>> THEN [exc |-> "", rows |-> <<>>]
    ELSE IF Head(items).t # "dict"
         THEN [exc |-> "AttributeError", rows |-> <<>>]
         ELSE LET rest == per_option_loop(Tail(items), provider, offer_id,
                                          enqueued_time_sp)
              IN  [exc |-> rest.exc,
                   rows |-> <<option_row(provider, offer_id, Head(items),
                                         enqueued_time_sp)>> \o rest.rows]

\* The slip of an append indented one level too little: it runs once, after
\* the loop over the options, with the last option.
options_loop_last_only(options, curation_provider, offer_id, dealer_id, enqueued_time_sp) ==
    IF options = <<>> THEN [exc |-> "", rows |-> <<>>]
    ELSE LET opt == options[Len(options)]
         IN  [exc |-> "",
              rows |-> <<curated_row(curation_provider, offer_id, dealer_id,
                                     opt, Get(opt, "defeatReasons"),
                                     enqueued_time_sp)>>]

\* The loop of lines 73-98 over the options of one curation result.
RECURSIVE options_loop(_, _, _, _, _)
options_loop(options, curation_provider, offer_id, dealer_id, enqueued_time_sp) ==
    IF options = <<>> THEN [exc |-> "", rows |-> <<>>]
    ELSE LET opt == Head(options) IN
         IF opt.t # "dict" THEN [exc |-> "AttributeError", rows |-> <<>>]
         ELSE LET raw == Get(opt, "defeatReasons") IN
              IF raw.t = "list" /\ \E k \in 1..Len(raw.v) : raw.v[k].t # "str"
              THEN [exc |-> "TypeError", rows |-> <<>>]
              ELSE LET defeat_reasons ==
                           IF raw.t = "list" THEN JStr(join(raw.v)) ELSE raw
                       rest == options_loop(Tail(options), curation_provider,
                                            offer_id, dealer_id,
                                            enqueued_time_sp)
                   IN  [exc |-> rest.exc,
                        rows |-> <<curated_row(curation_provider, offer_id,
                                               dealer_id, opt, defeat_reasons,
                                               enqueued_time_sp)>>
                                 \o rest.rows]

\* The loop of lines 67-98 over the curation results of the payload.
RECURSIVE curate_loop(_, _)
curate_loop(items, enqueued_time_sp) ==
    IF items = <<>> THEN [exc |-> "", rows |-> <<>>]
    ELSE LET curate_item == Head(items) IN
         IF curate_item.t # "dict"
         THEN [exc |-> "AttributeError", rows |-> <<>>]
         ELSE LET options == iterate(GetDefault(curate_item, "options",
                                                JList(<<>>)))
              IN  IF options.exc # "" THEN [exc |-> options.exc, rows |-> <<>>]
                  ELSE LET inner == options_loop(
                                        options.items,
                                        Get(curate_item, "curationProvider"),
                                        Get(curate_item, "offerId"),
                                        Get(curate_item, "dealerId"),
                                        enqueued_time_sp)
                       IN  IF inner.exc # "" THEN inner
                           ELSE LET rest == curate_loop(Tail(items),
                                                        enqueued_time_sp)
                                IN  [exc |-> rest.exc,
                                     rows |-> inner.rows \o rest.rows]

\* json.loads(payload_str), line 33.
json_loads(payload_str) ==
    IF payload_str.t # "str" THEN [exc |-> "TypeError"]
    ELSE IF "doc" \in DOMAIN payload_str.v
         THEN [exc |-> "", v |-> payload_str.v.doc]
         ELSE [exc |-> "JSONDecodeError"]

NoRows == [exc |-> "", skipped |-> FALSE,
           cur |-> <<>>, opt |-> <<>>, rng |-> <<>>]

Raise(e) == [NoRows EXCEPT !.exc = e]

\* Lines 38-63: the rows a DynamicPrice_Result payload adds.
dynamic_price_result(payload, enqueued_time_sp) ==
    IF payload.t # "dict" THEN Raise("AttributeError")
    ELSE LET provider == Get(payload, "provider")
             offer_id == Get(payload, "offerId")
             algorithm_output == Get(payload, "algorithmOutput")
         IN  IF IsStr(provider, "ApplyDynamicPriceRange")
             THEN IF algorithm_output.t # "dict" THEN Raise("AttributeError")
                  ELSE [NoRows EXCEPT
                          !.rng = <<range_row(provider, offer_id,
                                              algorithm_output,
                                              enqueued_time_sp)>>]
             ELSE IF IsStr(provider, "ApplyDynamicPricePerOption")
             THEN LET it == iterate(algorithm_output)
                  IN  IF it.exc # "" THEN Raise(it.exc)
                      ELSE LET r == per_option_loop(it.items, provider,
                                                    offer_id, enqueued_time_sp)
                           IN  [NoRows EXCEPT !.exc = r.exc, !.opt = r.rows]
             ELSE NoRows

\* Lines 65-98: the rows a CurateOffer_Result payload adds.
curate_offer_result(payload, enqueued_time_sp) ==
    LET it == iterate(payload)
    IN  IF it.exc # "" THEN Raise(it.exc)
        ELSE LET r == curate_loop(it.items, enqueued_time_sp)
             IN  [NoRows EXCEPT !.exc = r.exc, !.cur = r.rows]

\* The slip of a missing try/except: the decode error leaves the loop.
on_decode_error_reraise == Raise("JSONDecodeError")

\* Lines 34-36: the decode error is caught, reported, and the loop continues.
on_decode_error == [NoRows EXCEPT !.skipped = TRUE]

\* The slip of a plain else in place of the elif of line 65.
is_curate_event_else(event_name) == TRUE

\* Line 65.
is_curate_event(event_name) == IsStr(event_name, "CurateOffer_Result")

\* Lines 29-98, after the timestamp is normalized: what one record adds.
dispatch(record, enqueued_time_sp) ==
    LET event_name == Get(record, "EventName")
        payload == json_loads(Get(record, "Payload"))
    IN  IF payload.exc = "JSONDecodeError" THEN on_decode_error
        ELSE IF payload.exc # "" THEN Raise(payload.exc)
        ELSE IF IsStr(event_name, "DynamicPrice_Result")
             THEN dynamic_price_result(payload.v, enqueued_time_sp)
        ELSE IF is_curate_event(event_name)
             THEN curate_offer_result(payload.v, enqueued_time_sp)
        ELSE NoRows

\* The slip of normalizing the timestamp once, before the loop, from the
\* first record.
loop_body_first_stamp(record, pad_year) ==
    LET sp == convert_to_brasilian_time(Get(data[1], "EnqueuedTimeUtc"),
                                        pad_year)
    IN  IF sp.exc # "" THEN Raise(sp.exc)
        ELSE dispatch(record, sp.v)

\* Lines 27-98: the body of the loop for one record.
loop_body(record, pad_year) ==
    IF record.t # "dict" THEN Raise("AttributeError")
    ELSE LET sp == convert_to_brasilian_time(Get(record, "EnqueuedTimeUtc"),
                                             pad_year)
         IN  IF sp.exc # "" THEN Raise(sp.exc)
             ELSE dispatch(record, sp.v)

\* Lines 26-98: the whole loop over `batch`, from empty collections: what
\* the collections hold when it ends, and the exception that ended it early.
RECURSIVE run_loop(_, _)
run_loop(batch, pad_year) ==
    IF batch = <<>> THEN NoRows
    ELSE LET r == loop_body(Head(batch), pad_year)
         IN  IF r.exc # "" THEN r
             ELSE LET rest == run_loop(Tail(batch), pad_year)
                  IN  [exc |-> rest.exc, skipped |-> FALSE,
                       cur |-> r.cur \o rest.cur,
                       opt |-> r.opt \o rest.opt,
                       rng |-> r.rng \o rest.rng]

---------------------------------------------------------------------------
(* The sink, lines 100-126 *)

\* The slip of a missing emptiness test.
df_empty_never(rows) == FALSE

\* df.empty, line 116: a frame built from a list of rows has no row exactly
\* when the list is empty.
df_empty(rows) == rows = <<>>

\* save_with_custom_quoting(df, filename), lines 115-122, then on to `then`.
save_with_custom_quoting(rows, filename, then) ==
    /\ IF df_empty(rows)
       THEN UNCHANGED <<files, stdout>>
       ELSE /\ files' = files \cup {[name |-> filename, rows |-> rows]}
            /\ stdout' = Append(stdout, [msg |-> "Saved", what |-> JStr(filename)])
    /\ pc' = then
    /\ UNCHANGED <<data, next_record, curated_offer_options,
                   dynamic_price_option, dynamic_price_range, exc,
                   output_dir_made, utc_time_str, returned>>

---------------------------------------------------------------------------
(* Input batches *)

MaxBatch == 3

MaxOptions == 3

\* "YYYY-MM-DD HH:MM:SS UTC"
TimeText(y, m, d, H, M, S) ==
    zfill(y, 4) \o <<"-">> \o zfill(m, 2) \o <<"-">> \o zfill(d, 2) \o <<" ">>
        \o zfill(H, 2) \o <<":">> \o zfill(M, 2) \o <<":">> \o zfill(S, 2)
        \o UtcSuffix

TsDay == JStr(TimeText(2021, 9, 5, 8, 4, 8))
TsNight == JStr(TimeText(2021, 9, 5, 2, 0, 0))
TsNewYear == JStr(TimeText(2022, 1, 1, 0, 30, 0))
TsDateOnly == JStr(zfill(2021, 4) \o <<"-">> \o zfill(9, 2) \o <<"-">>
                   \o zfill(5, 2) \o UtcSuffix)

Text(doc) == JStr([doc |-> doc])
Undecodable == JStr([garbage |-> "{"])

Id(prefix, k) == JStr(prefix \o DigitChar[k + 1])

\* An element of algorithmOutput for ApplyDynamicPricePerOption; every other
\* one has no bestPrice.
PricedOption(k) ==
    IF k % 2 = 1
    THEN JDict([uniqueOptionId |-> Id("u", k), bestPrice |-> JNum(100 + k)])
    ELSE JDict([uniqueOptionId |-> Id("u", k)])

\* The defeatReasons of the k-th option of a curation result: a list of
\* strings, null, a plain string, absent.
CuratedOption(prefix, k) ==
    LET base == [uniqueOptionId |-> Id(prefix, k), optionId |-> JNum(k),
                 isWinner |-> JBool(k = 1), finalPrice |-> JNum(50 + k)]
    IN  CASE k % 4 = 1 ->
               JDict([x \in DOMAIN base \cup {"defeatReasons"} |->
                        IF x = "defeatReasons"
                        THEN JList(<<JStr("Price"), JStr("Eta")>>)
                        ELSE base[x]])
          [] k % 4 = 2 ->
               JDict([x \in DOMAIN base \cup {"defeatReasons"} |->
                        IF x = "defeatReasons" THEN None ELSE base[x]])
          [] k % 4 = 3 ->
               JDict([x \in DOMAIN base
                              \cup {"defeatReasons", "defeatPrimaryReason"} |->
                        IF x = "defeatReasons" THEN JStr("Manual")
                        ELSE IF x = "defeatPrimaryReason" THEN JStr("Price")
                        ELSE base[x]])
          [] OTHER -> JDict(base)

\* An option whose defeatReasons is `reasons`.
OptionWith(id, reasons) ==
    JDict([uniqueOptionId |-> JStr(id), defeatReasons |-> reasons])

RangeDoc ==
    JDict([provider |-> JStr("ApplyDynamicPriceRange"),
           offerId |-> JStr("offer-r"),
           algorithmOutput |->
               JDict([min_global |-> JNum(10), min_recommended |-> JNum(12),
                      max_recommended |-> JNum(20)])])

PerOptionDoc(n) ==
    JDict([provider |-> JStr("ApplyDynamicPricePerOption"),
           offerId |-> JStr("offer-p"),
           algorithmOutput |-> JList([k \in 1..n |-> PricedOption(k)])])

CurateDoc ==
    JList(<<JDict([curationProvider |-> JStr("ByPrice"),
                   offerId |-> JStr("offer-c1"),
                   dealerId |-> JStr("dealer-1"),
                   options |-> JList([k \in 1..MaxOptions |->
                                        CuratedOption("a", k)])]),
            JDict([curationProvider |-> JStr("ByEta"),
                   offerId |-> JStr("offer-c2")])>>)

CurateSplitDoc ==
    JList(<<JDict([offerId |-> JStr("offer-c3"), options |-> JList(<<>>)]),
            JDict([offerId |-> JStr("offer-c4"),
                   options |-> JList(<<CuratedOption("b", 1)>>)]),
            JDict([offerId |-> JStr("offer-c5"),
                   dealerId |-> JStr("dealer-5"),
                   options |-> JList(<<OptionWith("f1", JNum(0)),
                                       OptionWith("f2", JBool(FALSE)),
                                       OptionWith("f3", JList(<<>>)),
                                       OptionWith("f4", JBool(TRUE))>>)])>>)

CurateBadReasonsDoc ==
    JList(<<JDict([offerId |-> JStr("offer-c7"),
                   options |-> JList(<<OptionWith("g1", JStr("Manual")),
                                       OptionWith("g2", JList(<<JNum(1)>>)),
                                       OptionWith("g3", None)>>)])>>)

Envelope(ts, event, payload) ==
    JDict([EnqueuedTimeUtc |-> ts, EventName |-> JStr(event),
           Payload |-> payload])

Envelopes ==
    { Envelope(TsDay, "DynamicPrice_Result", Text(RangeDoc)),
      Envelope(TsNight, "DynamicPrice_Result", Text(PerOptionDoc(MaxOptions))),
      Envelope(TsDay, "DynamicPrice_Result", Text(PerOptionDoc(0))),
      Envelope(TsNewYear, "CurateOffer_Result", Text(CurateDoc)),
      Envelope(TsNight, "CurateOffer_Result", Text(CurateSplitDoc)),
      Envelope(TsDay, "Something_Else", Text(RangeDoc)),
      Envelope(TsNight, "DynamicPrice_Result",
               Text(JDict([provider |-> JStr("ApplyStaticPrice"),
                           algorithmOutput |-> JList(<<PricedOption(1)>>)]))),
      Envelope(TsNewYear, "DynamicPrice_Result", Undecodable),
      \* the ones that end the run
      Envelope(TsDateOnly, "DynamicPrice_Result", Text(RangeDoc)),
      JDict([EnqueuedTimeUtc |-> TsDay,
             EventName |-> JStr("Something_Else")]),
      Envelope(TsDay, "DynamicPrice_Result",
               Text(JDict([provider |-> JStr("ApplyDynamicPriceRange"),
                           offerId |-> JStr("offer-r")]))),
      Envelope(TsNight, "CurateOffer_Result", Text(CurateBadReasonsDoc)) }

Batches == UNION { [1..n -> Envelopes] : n \in 0..MaxBatch }

---------------------------------------------------------------------------
(* process_case_data as a state machine *)

Init ==
    /\ data \in Batches
    /\ next_record = 1
    /\ curated_offer_options = <<>>
    /\ dynamic_price_option = <<>>
    /\ dynamic_price_range = <<>>
    /\ pc = "loop"
    /\ exc = ""
    /\ stdout = <<>>
    /\ output_dir_made = FALSE
    /\ files = {}
    /\ utc_time_str = None
    /\ returned = NotCalled

\* Lines 27-28 as seen from outside: the latest call of
\* convert_to_brasilian_time.
Calls(record, pad_year) ==
    /\ utc_time_str' = Get(record, "EnqueuedTimeUtc")
    /\ returned' = convert_to_brasilian_time(Get(record, "EnqueuedTimeUtc"),
                                             pad_year)

\* The slip of insert(0, row) for append(row).
Prepends(r) ==
    /\ curated_offer_options' = r.cur \o curated_offer_options
    /\ dynamic_price_option' = r.opt \o dynamic_price_option
    /\ dynamic_price_range' = r.rng \o dynamic_price_range

\* Lines 44, 57, 79: list.append, once per row, in the order produced.
Appends(r) ==
    /\ curated_offer_options' = curated_offer_options \o r.cur
    /\ dynamic_price_option' = dynamic_price_option \o r.opt
    /\ dynamic_price_range' = dynamic_price_range \o r.rng

\* One pass of the loop body that reaches its end.
ProcessRecord ==
    /\ pc = "loop"
    /\ next_record <= Len(data)
    /\ \E pad_year \in BOOLEAN :
         LET r == loop_body(data[next_record], pad_year)
         IN  /\ r.exc = ""
             /\ ~r.skipped
             /\ Appends(r)
             /\ Calls(data[next_record], pad_year)
    /\ next_record' = next_record + 1
    /\ UNCHANGED <<data, pc, exc, stdout, output_dir_made, files>>

\* Lines 34-36: the payload does not decode; report and continue.
SkipRecord ==
    /\ pc = "loop"
    /\ next_record <= Len(data)
    /\ \E pad_year \in BOOLEAN :
         LET r == loop_body(data[next_record], pad_year)
         IN  /\ r.exc = ""
             /\ r.skipped
             /\ Appends(r)
             /\ Calls(data[next_record], pad_year)
    /\ stdout' = Append(stdout, [msg |-> "Failed to decode payload for record",
                                 what |-> data[next_record]])
    /\ next_record' = next_record + 1
    /\ UNCHANGED <<data, pc, exc, output_dir_made, files>>

\* The slip of a blanket except around the loop: the pass is cut short and
\* the sink still runs on what was collected.
RecordRaises_then_saves ==
    /\ pc = "loop"
    /\ next_record <= Len(data)
    /\ \E pad_year \in BOOLEAN :
         LET r == loop_body(data[next_record], pad_year)
         IN  /\ r.exc # ""
             /\ Appends(r)
             /\ Calls(data[next_record], pad_year)
             /\ exc' = r.exc
    /\ pc' = "save1"
    /\ UNCHANGED <<data, next_record, stdout, output_dir_made, files>>

\* An exception leaves the loop body; nothing catches it, the run ends.
RecordRaises ==
    /\ pc = "loop"
    /\ next_record <= Len(data)
    /\ \E pad_year \in BOOLEAN :
         LET r == loop_body(data[next_record], pad_year)
         IN  /\ r.exc # ""
             /\ Appends(r)
             /\ Calls(data[next_record], pad_year)
             /\ exc' = r.exc
    /\ pc' = "raised"
    /\ UNCHANGED <<data, next_record, stdout, output_dir_made, files>>

\* Lines 101-109: the loop is over; make the directory, build the frames.
MakeDirs ==
    /\ pc = "loop"
    /\ next_record > Len(data)
    /\ output_dir_made' = TRUE
    /\ pc' = "save1"
    /\ UNCHANGED <<data, next_record, curated_offer_options,
                   dynamic_price_option, dynamic_price_range, exc, stdout,
                   files, utc_time_str, returned>>

\* Line 124.
SaveCurated ==
    /\ pc = "save1"
    /\ save_with_custom_quoting(curated_offer_options,
                                "CuratedOfferOptions.csv", "save2")

\* Line 125.
SaveOption ==
    /\ pc = "save2"
    /\ save_with_custom_quoting(dynamic_price_option,
                                "DynamicPriceOption.csv", "save3")

\* Line 126.
SaveRange ==
    /\ pc = "save3"
    /\ save_with_custom_quoting(dynamic_price_range,
                                "DynamicPriceRange.csv", "done")

Next ==
    \/ ProcessRecord
    \/ SkipRecord
    \/ RecordRaises
    \/ MakeDirs
    \/ SaveCurated
    \/ SaveOption
    \/ SaveRange

Spec == Init /\ [][Next]_vars

---------------------------------------------------------------------------
(* convert_to_brasilian_time on its own *)

Years == {1, 999, 1000, 1900, 2000, 2021, 2024, 9999}

HoursOfDay == {0, 2, 3, 12, 23}

TimeInputs ==
    { JStr(TimeText(y, m, d, t[1], t[2], t[3])) :
        y \in Years, m \in 1..12, d \in 1..31,
        t \in (HoursOfDay \X {0} \X {0}) \cup {<<2, 59, 59>>, <<3, 0, 1>>} }
    \cup { TsDateOnly, None,
           JStr(SubSeq(TsDay.v, 1, 19)),
           JStr(TimeText(2021, 13, 1, 0, 0, 0)),
           JStr(TimeText(2021, 9, 5, 24, 0, 0)),
           JStr(TimeText(0, 1, 1, 12, 0, 0)) }

InitTime ==
    /\ data = <<>>
    /\ next_record = 1
    /\ curated_offer_options = <<>>
    /\ dynamic_price_option = <<>>
    /\ dynamic_price_range = <<>>
    /\ pc = "call"
    /\ exc = ""
    /\ stdout = <<>>
    /\ output_dir_made = FALSE
    /\ files = {}
    /\ utc_time_str \in TimeInputs
    /\ returned = NotCalled

\* One call of convert_to_brasilian_time(utc_time_str).
Convert ==
    /\ pc = "call"
    /\ \E pad_year \in BOOLEAN :
         returned' = convert_to_brasilian_time(utc_time_str, pad_year)
    /\ pc' = "returned"
    /\ UNCHANGED <<data, next_record, curated_offer_options,
                   dynamic_price_option, dynamic_price_range, exc, stdout,
                   output_dir_made, files, utc_time_str>>

NextTime == Convert

SpecTime == InitTime /\ [][NextTime]_vars

---------------------------------------------------------------------------
(* What the specification says of a timestamp, stated on the calendar and  *)
(* not through datetime's arithmetic.                                      *)

LeapYear(y) == (y % 4 = 0 /\ y % 100 # 0) \/ y % 400 = 0

DaysIn(y, m) ==
    IF m = 2 THEN (IF LeapYear(y) THEN 29 ELSE 28)
    ELSE IF m \in {4, 6, 9, 11} THEN 30 ELSE 31

Two(s, k) == Digit[s[k]] * 10 + Digit[s[k + 1]]

\* The fields of "YYYY-MM-DD HH:MM:SS UTC".
FieldsOf(s) ==
    [year |-> Two(s, 1) * 100 + Two(s, 3), month |-> Two(s, 6),
     day |-> Two(s, 9), hour |-> Two(s, 12), minute |-> Two(s, 15),
     second |-> Two(s, 18)]

\* u is a str of the form "YYYY-MM-DD HH:MM:SS UTC" naming a date and time
\* that exist.
ValidInput(u) ==
    /\ u.t = "str"
    /\ Len(u.v) = 23
    /\ \A k \in 1..23 :
         CASE k \in {5, 8} -> u.v[k] = "-"
           [] k \in {14, 17} -> u.v[k] = ":"
           [] k \in {11, 20} -> u.v[k] = " "
           [] k = 21 -> u.v[k] = "U"
           [] k = 22 -> u.v[k] = "T"
           [] k = 23 -> u.v[k] = "C"
           [] OTHER -> u.v[k] \in DOMAIN Digit
    /\ LET f == FieldsOf(u.v)
       IN  /\ f.year >= 1
           /\ f.month \in 1..12
           /\ f.day \in 1..DaysIn(f.year, f.month)
           /\ f.hour \in 0..23 /\ f.minute \in 0..59 /\ f.second \in 0..59

\* The calendar date of the instant 3 hours before a valid input: the same
\* date from 03:00:00 on, the previous one before.
LocalDate(u) ==
    LET f == FieldsOf(u.v)
    IN  IF f.hour >= 3 THEN [year |-> f.year, month |-> f.month, day |-> f.day]
        ELSE IF f.day > 1
             THEN [year |-> f.year, month |-> f.month, day |-> f.day - 1]
        ELSE IF f.month > 1
             THEN [year |-> f.year, month |-> f.month - 1,
                   day |-> DaysIn(f.year, f.month - 1)]
        ELSE [year |-> f.year - 1, month |-> 12, day |-> 31]

TwoChars(n) == <<DigitChar[(n \div 10) + 1], DigitChar[(n % 10) + 1]>>

\* DD/MM/YYYY
DateText(d) ==
    TwoChars(d.day) \o <<"/">> \o TwoChars(d.month) \o <<"/">>
        \o TwoChars(d.year \div 100) \o TwoChars(d.year % 100)

\* The year as %Y prints it where the C library does not fill with zeros.
RECURSIVE Decimal(_)
Decimal(n) ==
    IF n < 10 THEN <<DigitChar[n + 1]>>
    ELSE Decimal(n \div 10) \o <<DigitChar[(n % 10) + 1]>>

DateTextUnfilled(d) ==
    TwoChars(d.day) \o <<"/">> \o TwoChars(d.month) \o <<"/">> \o Decimal(d.year)

---------------------------------------------------------------------------
(* What the specification says of an envelope and of the rows it yields.   *)

IsText(e) == Get(e, "Payload").t = "str"
Decodes(e) == IsText(e) /\ "doc" \in DOMAIN Get(e, "Payload").v
FailsToDecode(e) == IsText(e) /\ ~Decodes(e)
DocOf(e) == Get(e, "Payload").v.doc
StampOK(e) == ValidInput(Get(e, "EnqueuedTimeUtc"))
Event(e, name) == IsStr(Get(e, "EventName"), name)
Provider(e, name) ==
    Decodes(e) /\ DocOf(e).t = "dict" /\ IsStr(Get(DocOf(e), "provider"), name)
OutputOf(e) == Get(DocOf(e), "algorithmOutput")

\* The envelopes that qualify for each dataset.
IsRange(e) ==
    /\ StampOK(e) /\ Event(e, "DynamicPrice_Result")
    /\ Provider(e, "ApplyDynamicPriceRange") /\ OutputOf(e).t = "dict"

IsPerOption(e) ==
    /\ StampOK(e) /\ Event(e, "DynamicPrice_Result")
    /\ Provider(e, "ApplyDynamicPricePerOption") /\ OutputOf(e).t = "list"

IsCurate(e) ==
    /\ StampOK(e) /\ Decodes(e) /\ Event(e, "CurateOffer_Result")
    /\ DocOf(e).t = "list"

\* The options sequence of a curation result; none when it has no such key.
OptionsOf(item) ==
    IF item.t = "dict" /\ "options" \in DOMAIN item.v
       /\ item.v["options"].t = "list"
    THEN item.v["options"].v
    ELSE <<>>

AllDicts(s) == \A k \in 1..Len(s) : s[k].t = "dict"

AllStrings(x) == x.t = "list" /\ \A k \in 1..Len(x.v) : x.v[k].t = "str"

\* A defeatReasons that is a sequence but not one of strings.
BadReasons(opt) ==
    /\ opt.t = "dict"
    /\ Get(opt, "defeatReasons").t = "list"
    /\ ~AllStrings(Get(opt, "defeatReasons"))

\* The shapes section 4.2 of the specification gives the payloads.
PerOptionShaped(e) == IsPerOption(e) /\ AllDicts(OutputOf(e).v)

ResultShaped(item) ==
    /\ item.t = "dict"
    /\ "options" \in DOMAIN item.v =>
          /\ item.v["options"].t = "list"
          /\ AllDicts(item.v["options"].v)
          /\ \A k \in 1..Len(item.v["options"].v) :
                ~BadReasons(item.v["options"].v[k])

CurateShaped(e) ==
    IsCurate(e) /\ \A k \in 1..Len(DocOf(e).v) : ResultShaped(DocOf(e).v[k])

RECURSIVE SumOptions(_)
SumOptions(items) ==
    IF items = <<>> THEN 0
    ELSE Len(OptionsOf(Head(items))) + SumOptions(Tail(items))

\* The source of every row a batch should yield, per dataset, in the order
\* the specification asks for: envelopes in input order; within a
\* CurateOffer_Result payload, results in payload order and options in order
\* within each result; within algorithmOutput, options in order.
RECURSIVE FlatOptions(_, _)
FlatOptions(items, n) ==
    IF items = <<>> THEN <<>>
    ELSE [k \in 1..Len(OptionsOf(Head(items))) |->
             [env |-> n, item |-> Head(items),
              opt |-> OptionsOf(Head(items))[k]]]
         \o FlatOptions(Tail(items), n)

RECURSIVE CuratedSources(_)
CuratedSources(n) ==
    IF n = 0 THEN <<>>
    ELSE CuratedSources(n - 1)
         \o (IF IsCurate(data[n]) THEN FlatOptions(DocOf(data[n]).v, n)
             ELSE <<>>)

RECURSIVE OptionSources(_)
OptionSources(n) ==
    IF n = 0 THEN <<>>
    ELSE OptionSources(n - 1)
         \o (IF IsPerOption(data[n])
             THEN [k \in 1..Len(OutputOf(data[n]).v) |->
                     [env |-> n, opt |-> OutputOf(data[n]).v[k]]]
             ELSE <<>>)

RECURSIVE RangeSources(_)
RangeSources(n) ==
    IF n = 0 THEN <<>>
    ELSE RangeSources(n - 1)
         \o (IF IsRange(data[n]) THEN <<[env |-> n]>> ELSE <<>>)

\* The envelopes whose rows the collections hold: all those passed, and,
\* once an exception has ended the run, some of the rows of the one that
\* raised.
Seen == IF pc = "raised" THEN next_record ELSE next_record - 1

Matches(rows, sources) ==
    IF pc = "raised" THEN Len(rows) <= Len(sources)
    ELSE Len(rows) = Len(sources)

LocalDateOf(n) == DateText(LocalDate(Get(data[n], "EnqueuedTimeUtc")))

InLoop == pc = "loop" /\ next_record <= Len(data)

Collections ==
    <<curated_offer_options, dynamic_price_option, dynamic_price_range>>

Passes == pc' = "loop" /\ next_record' = next_record + 1 /\ exc' = ""

---------------------------------------------------------------------------
(* Claims *)

Others(batch) == SelectSeq(batch, LAMBDA e : ~FailsToDecode(e))

C1_SkipStep ==
    (InLoop /\ FailsToDecode(data[next_record]) /\ StampOK(data[next_record]))
        => /\ Collections' = Collections
           /\ Passes
           /\ Len(stdout') = Len(stdout) + 1

C1_FinalRows ==
    pc = "done" =>
        /\ next_record = Len(data) + 1
        /\ \E pad_year \in BOOLEAN :
             LET r == run_loop(Others(data), pad_year)
             IN  /\ r.exc = ""
                 /\ Collections = <<r.cur, r.opt, r.rng>>

\* C1: an envelope whose Payload text fails to decode is skipped: the step
\* over it adds no row to any collection, reports it, and goes on to the next
\* envelope; when the pass is over, every envelope has been gone through and
\* the collections hold exactly the rows the batch without its undecodable
\* envelopes yields.
C1_MalformedPayloadIsolated == []C1_FinalRows /\ [][C1_SkipStep]_vars

\* Three envelopes, the 2nd undecodable: the pass is over and holds rows of
\* the 1st and the 3rd.
C1_Witness ==
    /\ pc = "done"
    /\ Len(data) = 3
    /\ FailsToDecode(data[2])
    /\ IsRange(data[1])
    /\ IsCurate(data[3])
    /\ Len(dynamic_price_range) = 1
    /\ Len(curated_offer_options) > 0
    /\ Len(stdout) > 0

Grows(by) ==
    /\ Len(curated_offer_options') = Len(curated_offer_options) + by[1]
    /\ Len(dynamic_price_option') = Len(dynamic_price_option) + by[2]
    /\ Len(dynamic_price_range') = Len(dynamic_price_range) + by[3]

C3_Step ==
    InLoop =>
        LET e == data[next_record]
        IN  /\ IsRange(e) => Grows(<<0, 0, 1>>)
            /\ PerOptionShaped(e) => Grows(<<0, Len(OutputOf(e).v), 0>>)
            /\ CurateShaped(e) => Grows(<<SumOptions(DocOf(e).v), 0, 0>>)

C4_InSourceOrder ==
    /\ LET src == CuratedSources(Seen)
       IN  /\ Matches(curated_offer_options, src)
           /\ \A k \in 1..Len(curated_offer_options) :
                /\ curated_offer_options[k].OfferId
                     = Get(src[k].item, "offerId")
                /\ curated_offer_options[k].UniqueOptionId
                     = Get(src[k].opt, "uniqueOptionId")
                /\ curated_offer_options[k].OptionId
                     = Get(src[k].opt, "optionId")
    /\ LET src == OptionSources(Seen)
       IN  /\ Matches(dynamic_price_option, src)
           /\ \A k \in 1..Len(dynamic_price_option) :
                /\ dynamic_price_option[k].OfferId
                     = Get(DocOf(data[src[k].env]), "offerId")
                /\ dynamic_price_option[k].UniqueOptionId
                     = Get(src[k].opt, "uniqueOptionId")
                /\ dynamic_price_option[k].BestPrice
                     = Get(src[k].opt, "bestPrice")
    /\ LET src == RangeSources(Seen)
       IN  /\ Matches(dynamic_price_range, src)
           /\ \A k \in 1..Len(dynamic_price_range) :
                /\ dynamic_price_range[k].OfferId
                     = Get(DocOf(data[src[k].env]), "offerId")
                /\ dynamic_price_range[k].MinGlobal
                     = Get(OutputOf(data[src[k].env]), "min_global")

KeepsRows(before, after) ==
    Len(after) >= Len(before) /\ SubSeq(after, 1, Len(before)) = before

C4_OnlyAppended ==
    /\ KeepsRows(curated_offer_options, curated_offer_options')
    /\ KeepsRows(dynamic_price_option, dynamic_price_option')
    /\ KeepsRows(dynamic_price_range, dynamic_price_range')

\* C4: in every state of the pass, each collection holds its rows in the
\* order of their source envelopes and, within one envelope, in the order of
\* the source sequence (results in payload order, options in order within a
\* result); and a step only appends: the rows held before stay, in place and
\* unchanged.
C4_OrderKept == []C4_InSourceOrder /\ [][C4_OnlyAppended]_vars

\* Two different CurateOffer_Result envelopes, each of several options, have
\* been gone through.
C4_Witness ==
    /\ pc = "done"
    /\ Len(data) = 2
    /\ IsCurate(data[1]) /\ IsCurate(data[2])
    /\ data[1] # data[2]
    /\ SumOptions(DocOf(data[1]).v) > 1
    /\ SumOptions(DocOf(data[2]).v) > 1
    /\ Len(DocOf(data[1]).v) > 2
    /\ Len(curated_offer_options)
         = SumOptions(DocOf(data[1]).v) + SumOptions(DocOf(data[2]).v)

RECURSIVE JoinComma(_)
JoinComma(strs) ==
    IF strs = <<>> THEN ""
    ELSE IF Len(strs) = 1 THEN strs[1].v
    ELSE JoinComma(SubSeq(strs, 1, Len(strs) - 1)) \o "," \o strs[Len(strs)].v

\* false, 0, "", an empty sequence or mapping, null.
Falsy(x) ==
    \/ x.t = "null"
    \/ x.t = "bool" /\ ~x.v
    \/ x.t = "num" /\ x.v = 0
    \/ x.t = "str" /\ x.v = ""
    \/ x.t = "list" /\ Len(x.v) = 0
    \/ x.t = "dict" /\ DOMAIN x.v = {}

RawReasons(k) == Get(CuratedSources(Seen)[k].opt, "defeatReasons")

\* What the statement of C5 makes of a raw defeatReasons.
AsStated(raw) ==
    IF AllStrings(raw) THEN JStr(JoinComma(raw.v))
    ELSE IF raw.t = "null" THEN JStr("")
    ELSE raw

\* What the amended statement makes of it.
AsAmended(raw) ==
    IF AllStrings(raw) THEN JStr(JoinComma(raw.v))
    ELSE IF Falsy(raw) THEN JStr("")
    ELSE raw

\* A CurateOffer_Result payload with an option whose defeatReasons is a
\* sequence holding a non-string.
HasBadReasons(e) ==
    /\ IsCurate(e)
    /\ \E i \in 1..Len(DocOf(e).v) :
         \E k \in 1..Len(OptionsOf(DocOf(e).v[i])) :
            BadReasons(OptionsOf(DocOf(e).v[i])[k])

\* C5 as stated: DefeatReasons is the elements joined with "," when the raw
\* defeatReasons is a sequence of strings, the empty string when it is absent
\* or null, and the raw value itself, unchanged, for every other value.
C5_OtherValuesUnchanged ==
    LET src == CuratedSources(Seen)
    IN  \A k \in 1..Len(curated_offer_options) :
            curated_offer_options[k].DefeatReasons
                = AsStated(Get(src[k].opt, "defeatReasons"))

\* C5, amended: DefeatReasons is the elements joined with "," when the raw
\* value is a sequence of strings; the empty string when it is absent, null
\* or any other falsy value (false, 0, "", an empty mapping); the raw value
\* itself, unchanged, for every other value that is not a sequence.  No row
\* is emitted for an option whose defeatReasons is a sequence holding a
\* non-string: the pass never gets beyond its envelope.
C5_FalsyValuesEmptied ==
    /\ LET src == CuratedSources(Seen)
       IN  \A k \in 1..Len(curated_offer_options) :
               curated_offer_options[k].DefeatReasons
                   = AsAmended(Get(src[k].opt, "defeatReasons"))
    /\ \A n \in 1..Len(data) : HasBadReasons(data[n]) => next_record <= n

\* Rows are held whose raw defeatReasons were a sequence of strings, null, a
\* string, and the number 0.
C5_Witness ==
    /\ pc = "done"
    /\ \E k \in 1..Len(curated_offer_options) :
         /\ RawReasons(k) = JList(<<JStr("Price"), JStr("Eta")>>)
         /\ curated_offer_options[k].DefeatReasons = JStr("Price,Eta")
    /\ \E k \in 1..Len(curated_offer_options) :
         /\ RawReasons(k) = None
         /\ curated_offer_options[k].DefeatReasons = JStr("")
    /\ \E k \in 1..Len(curated_offer_options) :
         /\ RawReasons(k) = JStr("Manual")
         /\ curated_offer_options[k].DefeatReasons = JStr("Manual")
    /\ \E k \in 1..Len(curated_offer_options) :
         /\ RawReasons(k) = JNum(0)
         /\ curated_offer_options[k].DefeatReasons = JStr("")

UnknownEvent(e) ==
    ~Event(e, "DynamicPrice_Result") /\ ~Event(e, "CurateOffer_Result")

UnknownProvider(e) ==
    /\ Event(e, "DynamicPrice_Result")
    /\ Decodes(e) /\ DocOf(e).t = "dict"
    /\ ~Provider(e, "ApplyDynamicPriceRange")
    /\ ~Provider(e, "ApplyDynamicPricePerOption")

C6_Step ==
    LET e == data[next_record]
    IN  (InLoop /\ (UnknownEvent(e) \/ UnknownProvider(e))) =>
            /\ Collections' = Collections
            /\ (StampOK(e) /\ IsText(e)) => Passes

\* C6: the step over an envelope whose EventName is neither
\* DynamicPrice_Result nor CurateOffer_Result, or is DynamicPrice_Result with
\* a provider that is neither of the two known ones, adds no row to any
\* collection; and, its timestamp being valid and its Payload a text, raises
\* nothing and goes on to the next envelope.
C6_UnknownDiscriminator == [][C6_Step]_vars

\* An envelope of an unknown event and one of an unknown provider have been
\* gone through, both with payloads that decode; nothing was collected.
C6_Witness ==
    /\ pc = "loop"
    /\ next_record = 3
    /\ UnknownEvent(data[1]) /\ Decodes(data[1]) /\ StampOK(data[1])
    /\ UnknownProvider(data[2]) /\ StampOK(data[2])
    /\ Collections = <<<<>>, <<>>, <<>>>>

\* C7: once an exception has ended the pass, no file has been written and
\* none will be (the sink has not started); and whenever a file has been
\* written, every envelope of the batch has been gone through without an
\* exception.
C7_AllOrNothing ==
    /\ pc = "raised" => (files = {} /\ ~output_dir_made /\ exc # "")
    /\ (files # {} \/ output_dir_made) =>
          (next_record = Len(data) + 1 /\ exc = "" /\ pc # "loop")

\* An exception has ended the pass at the 3rd envelope, after rows were
\* collected; no file is written.
C7_Witness ==
    /\ pc = "raised"
    /\ next_record = 3
    /\ Len(curated_offer_options) > 0
    /\ Len(dynamic_price_range) > 0
    /\ files = {}

\* Every key that is present holds what the specification says it holds:
\* whatever is irregular about the envelope is an absent key.
OnlyKeysMissing(e) ==
    /\ "EnqueuedTimeUtc" \in DOMAIN e.v => StampOK(e)
    /\ "Payload" \in DOMAIN e.v => IsText(e)
    /\ (Decodes(e) /\ Event(e, "DynamicPrice_Result")) =>
          /\ DocOf(e).t = "dict"
          /\ "algorithmOutput" \in DOMAIN DocOf(e).v =>
                /\ Provider(e, "ApplyDynamicPriceRange")
                      => OutputOf(e).t = "dict"
                /\ Provider(e, "ApplyDynamicPricePerOption")
                      => (OutputOf(e).t = "list" /\ AllDicts(OutputOf(e).v))
    /\ (Decodes(e) /\ Event(e, "CurateOffer_Result")) =>
          /\ DocOf(e).t = "list"
          /\ \A k \in 1..Len(DocOf(e).v) : ResultShaped(DocOf(e).v[k])

\* C8 as stated: processing never raises because a key is missing: an
\* envelope about which nothing is irregular but absent keys (of the
\* envelope, of the payload, algorithmOutput included, of a curation result,
\* of an option) does not end the pass.
C8_NeverRaisesOnMissingKey ==
    pc = "raised" => ~OnlyKeysMissing(data[next_record])

FileNames == {f.name : f \in files}

Written(name, rows) ==
    /\ name \in FileNames <=> rows # <<>>
    /\ \A f \in files : f.name = name => f.rows = rows

\* C9: when the pass is over, each collection's file is written exactly when
\* the collection holds a row, with the rows of that collection, and no other
\* file is.
C9_FilePerNonEmptyCollection ==
    pc = "done" =>
        /\ Written("CuratedOfferOptions.csv", curated_offer_options)
        /\ Written("DynamicPriceOption.csv", dynamic_price_option)
        /\ Written("DynamicPriceRange.csv", dynamic_price_range)
        /\ FileNames \subseteq {"CuratedOfferOptions.csv",
                                "DynamicPriceOption.csv",
                                "DynamicPriceRange.csv"}
        /\ exc = ""

\* The pass is over with the first collection empty and the other two not:
\* two files.
C9_Witness ==
    /\ pc = "done"
    /\ curated_offer_options = <<>>
    /\ FileNames = {"DynamicPriceOption.csv", "DynamicPriceRange.csv"}

\* C10: in every state of the pass, every row of every collection carries as
\* EnqueuedTimeSP the local date of the envelope it comes from, so the rows
\* of one envelope share it; the collections hold rows of no other envelope,
\* so none on account of a skipped one.
C10_RowsCarryOwnTimestamp ==
    /\ LET src == CuratedSources(Seen)
       IN  /\ Matches(curated_offer_options, src)
           /\ \A k \in 1..Len(curated_offer_options) :
                curated_offer_options[k].EnqueuedTimeSP
                    = LocalDateOf(src[k].env)
    /\ LET src == OptionSources(Seen)
       IN  /\ Matches(dynamic_price_option, src)
           /\ \A k \in 1..Len(dynamic_price_option) :
                dynamic_price_option[k].EnqueuedTimeSP
                    = LocalDateOf(src[k].env)
    /\ LET src == RangeSources(Seen)
       IN  /\ Matches(dynamic_price_range, src)
           /\ \A k \in 1..Len(dynamic_price_range) :
                dynamic_price_range[k].EnqueuedTimeSP
                    = LocalDateOf(src[k].env)

\* Option rows of a night-time envelope, then a skipped envelope of another
\* date, then a range row of a day-time envelope: each row has its own
\* envelope's date and none the skipped one's.
C10_Witness ==
    /\ pc = "done"
    /\ Len(data) = 3
    /\ IsPerOption(data[1]) /\ FailsToDecode(data[2]) /\ IsRange(data[3])
    /\ Len(dynamic_price_option) > 1
    /\ \A k \in 1..Len(dynamic_price_option) :
         dynamic_price_option[k].EnqueuedTimeSP
             = <<"0", "4", "/", "0", "9", "/", "2", "0", "2", "1">>
    /\ dynamic_price_range[1].EnqueuedTimeSP
             = <<"0", "5", "/", "0", "9", "/", "2", "0", "2", "1">>
    /\ LocalDateOf(2) = <<"3", "1", "/", "1", "2", "/", "2", "0", "2", "1">>

===========================================================================
